---- MODULE Spec2Model ----
(***************************************************************************)
(* Model of the chat route of pawelkomarnickihrme/ai-chatbot:              *)
(*   POST   (src/unnamed/part_000, lines 84-340)  create/append a message  *)
(*   DELETE (src/unnamed/part_000, lines 342-365) delete a conversation    *)
(*   generateEmbedding (src/lib/ai/embeddings.ts)                          *)
(* Every request is an asynchronous task; the steps of different requests  *)
(* interleave at the awaits that touch the persistent store.               *)
(***************************************************************************)
EXTENDS Integers, Sequences, FiniteSets, TLC

(* ---------------------------------------------------------------- bounds *)
MaxRequests == 3
MaxChunks == 1
MaxTokens == 1
GuestQuota == 1
RegularQuota == 2

Requests == 1..MaxRequests
Users == {"u1", "u2"}
ChatIds == {"c1"}
VisibilityTypes == {"private", "public"}

NoUser == "anonymous"
Unread == "unread"
NoChat == [exists |-> FALSE]
NoOwner == "no_owner"
NoId == "null"
EmptyId == ""
NoUsage == [undefined |-> TRUE]
NoCount == 0 - 1
NoModelId == "no_model_id"
ModelId == "chat-model"

(* session.user.type, line 113 *)
UserTypeOf(u) == IF u = "u1" THEN "guest" ELSE "regular"

(* entitlementsByUserType[userType].maxMessagesPerDay, line 120 *)
maxMessagesPerDay(userType) == IF userType = "guest" THEN GuestQuota ELSE RegularQuota

MessageCounts == 0..(RegularQuota + 1)

VARIABLES chats, messages, streams, req, deletions

vars == <<chats, messages, streams, req, deletions>>
store == <<chats, messages, streams>>

(* ------------------------------------------------------ conversation store *)
Chat(userId, title, visibility) ==
  [userId |-> userId, title |-> title, visibility |-> visibility, lastContext |-> NoUsage]

getChatById(id) == chats[id]

(* the store keeps every message and stream id in an existing conversation *)
(* and the owner of a conversation as created: it refuses a conversation   *)
(* under an identifier in use, and a message or a stream id for a          *)
(* conversation it does not hold                                           *)
ChatExists(id) == chats[id] # NoChat

saveChat(id, userId, title, visibility) ==
  [chats EXCEPT ![id] = Chat(userId, title, visibility)]

saveMessages(newMessages) == messages \cup newMessages

createStreamId(streamId, chatId) ==
  streams \cup {[streamId |-> streamId, chatId |-> chatId]}

(* deleteChatById: the conversation goes with its messages and stream ids *)
deleteChatById(id) ==
  [chats |-> [chats EXCEPT ![id] = NoChat],
   messages |-> {m \in messages : m.chatId # id},
   streams |-> {s \in streams : s.chatId # id}]

(* chat?.userId: the owner of the conversation read by getChatById *)
OwnerOf(chat) == IF chat = NoChat THEN NoOwner ELSE chat.userId

(* ------------------------------------------------------------- a request *)
Idle ==
  [kind |-> "none", pc |-> "idle", bodyOk |-> TRUE, id |-> NoId, session |-> Unread,
   messageCount |-> NoCount, chat |-> Unread, outcome |-> "none", calls |-> <<>>,
   chunks |-> <<>>, failure |-> "none", rawUsage |-> NoUsage, usage |-> NoUsage,
   providers |-> Unread, modelId |-> Unread, enrichThrows |-> FALSE,
   finishCount |-> 0, usageWrite |-> "none"]

Init ==
  /\ chats \in [ChatIds -> {NoChat} \cup {Chat(u, "seed", "private") : u \in Users}]
  /\ messages = {}
  /\ streams = {}
  /\ req = [r \in Requests |-> Idle]
  /\ deletions = {}

(* a record with the fields of rec overridden by those of upd *)
With(rec, upd) == upd @@ rec

Call(rec, op) == Append(rec.calls, op)

(* the handler returns a response that is not a stream *)
Return(rec, outcome) == With(rec, [pc |-> "returned", outcome |-> outcome])

NextFree(r) ==
  /\ req[r].pc = "idle"
  /\ \A q \in Requests : q < r => req[q].pc # "idle"

(* ------------------------------------------------- POST, lines 84 to 133 *)
(* mutant: the check of the session is lost *)
NoSession_Lost(user) == FALSE

(* line 109: !session?.user *)
NoSession(user) == user = NoUser

(* line 120: messageCount > entitlementsByUserType[userType].maxMessagesPerDay *)
RateLimitExceeded(messageCount, userType) == messageCount > maxMessagesPerDay(userType)

(* line 128: chat.userId !== session.user.id, under if (chat) of line 127 *)
PostNotOwner(chat, user) == chat # NoChat /\ chat.userId # user

(* The handler from the parse of the body to the branch on getChatById:     *)
(* bodyOk is the outcome of postRequestBodySchema.parse, user of auth(),    *)
(* messageCount of getMessageCountByUserId, chat of getChatById.            *)
PostBegin(bodyOk, id, user, messageCount, chat) ==
  LET r0 == With(Idle, [kind |-> "POST", bodyOk |-> bodyOk])
      r1 == With(r0, [id |-> id, session |-> user])
      r2 == With(r1, [messageCount |-> messageCount,
                      calls |-> Call(r1, "getMessageCountByUserId")])
      r3 == With(r2, [chat |-> OwnerOf(chat), calls |-> Call(r2, "getChatById")])
  IN  IF ~bodyOk THEN Return(r0, "bad_request:api")
      ELSE IF NoSession(user) THEN Return(r1, "unauthorized:chat")
      ELSE IF RateLimitExceeded(messageCount, UserTypeOf(user))
        THEN Return(r2, "rate_limit:chat")
      ELSE IF PostNotOwner(chat, user) THEN Return(r3, "forbidden:chat")
      ELSE IF chat # NoChat
        THEN With(r3, [pc |-> "saveMessages", calls |-> Call(r3, "getMessagesByChatId")])
      ELSE With(r3, [pc |-> "saveChat"])

POST_Begin(r) ==
  /\ NextFree(r)
  /\ \E bodyOk \in BOOLEAN, id \in ChatIds, user \in Users \cup {NoUser},
        messageCount \in MessageCounts :
       req' = [req EXCEPT ![r] =
                 PostBegin(bodyOk, id, user, messageCount, getChatById(id))]
  /\ UNCHANGED <<store, deletions>>

(* ------------------------------------------------ POST, lines 134 to 163 *)
(* generateTitleFromUserMessage and saveChat, lines 134-143 *)
POST_SaveChat(r) ==
  /\ req[r].pc = "saveChat"
  /\ ~ChatExists(req[r].id)
  /\ \E visibility \in VisibilityTypes :
       chats' = saveChat(req[r].id, req[r].session, "generated", visibility)
  /\ req' = [req EXCEPT ![r] =
               With(@, [pc |-> "saveMessages", messageCount |-> NoCount,
                        calls |-> Call(@, "saveChat")])]
  /\ UNCHANGED <<messages, streams, deletions>>

(* the query throws a ChatSDKError, which lines 333-335 return *)
POST_SaveChatRejected(r) ==
  /\ req[r].pc = "saveChat"
  /\ ChatExists(req[r].id)
  /\ req' = [req EXCEPT ![r] =
               Return(With(@, [calls |-> Call(@, "saveChat")]), "bad_request:database")]
  /\ UNCHANGED <<store, deletions>>

Message(r, role) ==
  [id |-> <<r, role>>, chatId |-> req[r].id, role |-> role, by |-> req[r].session]

(* mutant: the user message is not written *)
POST_SaveMessages_Skipped(r) ==
  /\ req[r].pc = "saveMessages"
  /\ ChatExists(req[r].id)
  /\ req' = [req EXCEPT ![r] =
               With(@, [pc |-> "createStreamId", messageCount |-> NoCount,
                        calls |-> Call(@, "saveMessages")])]
  /\ UNCHANGED <<store, deletions>>

(* saveMessages, lines 149-160 *)
POST_SaveMessages(r) ==
  /\ req[r].pc = "saveMessages"
  /\ ChatExists(req[r].id)
  /\ messages' = saveMessages({Message(r, "user")})
  /\ req' = [req EXCEPT ![r] =
               With(@, [pc |-> "createStreamId", messageCount |-> NoCount,
                        calls |-> Call(@, "saveMessages")])]
  /\ UNCHANGED <<chats, streams, deletions>>

POST_SaveMessagesRejected(r) ==
  /\ req[r].pc = "saveMessages"
  /\ ~ChatExists(req[r].id)
  /\ req' = [req EXCEPT ![r] =
               Return(With(@, [calls |-> Call(@, "saveMessages")]), "bad_request:database")]
  /\ UNCHANGED <<store, deletions>>

(* createStreamId, line 163, and the Response of line 329 *)
POST_CreateStreamId(r) ==
  /\ req[r].pc = "createStreamId"
  /\ ChatExists(req[r].id)
  /\ streams' = createStreamId(r, req[r].id)
  /\ req' = [req EXCEPT ![r] =
               With(@, [pc |-> "execute", outcome |-> "stream",
                        calls |-> Call(@, "createStreamId")])]
  /\ UNCHANGED <<chats, messages, deletions>>

POST_CreateStreamIdRejected(r) ==
  /\ req[r].pc = "createStreamId"
  /\ ~ChatExists(req[r].id)
  /\ req' = [req EXCEPT ![r] =
               Return(With(@, [calls |-> Call(@, "createStreamId")]), "bad_request:database")]
  /\ UNCHANGED <<store, deletions>>

(* --------------------------------- generateEmbedding, embeddings.ts 8-46 *)
(* apiKey: OPENAI_API_KEY is set; responseOk: response.ok; hasEmbedding:    *)
(* data.data?.[0]?.embedding is present. Every throw inside the try is      *)
(* caught at line 41 and thrown again, wrapped.                             *)
EmbeddingError(apiKey, responseOk, hasEmbedding) ==
  IF ~apiKey THEN "OPENAI_API_KEY is not set"
  ELSE IF ~responseOk THEN "OpenAI API error"
  ELSE IF ~hasEmbedding THEN "no embedding in response"
  ELSE "none"

generateEmbedding(apiKey, responseOk, hasEmbedding) ==
  LET error == EmbeddingError(apiKey, responseOk, hasEmbedding)
  IN  IF error = "none" THEN [threw |-> FALSE, error |-> <<>>]
      ELSE [threw |-> TRUE, error |-> <<"Failed to generate embedding", error>>]

(* --------------------------------------- POST.execute, lines 171 to 289 *)
Chunk(type, data) == [type |-> type, data |-> data]
NoData == [none |-> TRUE]
ErrorText == [delta |-> "Przepraszam, wystapil blad podczas wyszukiwania perfum."]
CompletionText == [delta |-> "completion"]

(* mutant: the catch writes the message and leaves the stream open *)
ExecuteCatch_NoFinish(rec, failure) ==
  With(rec, [pc |-> "streamFinish", failure |-> failure,
             chunks |-> rec.chunks \o <<Chunk("text-delta", ErrorText)>>])

(* the catch of lines 280-288 *)
ExecuteCatch(rec, failure) ==
  With(rec, [pc |-> "streamFinish", failure |-> failure,
             chunks |-> rec.chunks \o <<Chunk("text-delta", ErrorText), Chunk("finish", NoData)>>])

(* lines 172-279 up to the launch of streamText: searchOk is the outcome of *)
(* searchPerfumesByEmbedding                                                *)
Execute(rec, embedding, searchOk) ==
  IF embedding.threw THEN ExecuteCatch(rec, "embedding")
  ELSE IF ~searchOk THEN ExecuteCatch(rec, "search")
  ELSE With(rec, [pc |-> "drain"])

POST_Execute(r) ==
  /\ req[r].pc = "execute"
  /\ \E apiKey \in BOOLEAN, responseOk \in BOOLEAN, hasEmbedding \in BOOLEAN,
        searchOk \in BOOLEAN :
       req' = [req EXCEPT ![r] =
                 Execute(@, generateEmbedding(apiKey, responseOk, hasEmbedding), searchOk)]
  /\ UNCHANGED <<store, deletions>>

TextDeltas(chunks) == Len(SelectSeq(chunks, LAMBDA c : c.type = "text-delta"))

(* one part of the completion is forwarded, lines 273-279 *)
POST_Drain(r) ==
  /\ req[r].pc = "drain"
  /\ TextDeltas(req[r].chunks) < MaxChunks
  /\ req' = [req EXCEPT ![r] = With(@, [chunks |-> Append(@.chunks, Chunk("text-delta", CompletionText))])]
  /\ UNCHANGED <<store, deletions>>

RawUsage(inputTokens, outputTokens) ==
  [inputTokens |-> inputTokens, outputTokens |-> outputTokens]

(* the completion ends: its last part is forwarded and streamText calls    *)
(* onFinish with the usage it counted                                      *)
POST_CompletionEnd(r) ==
  /\ req[r].pc = "drain"
  /\ \E inputTokens \in 1..MaxTokens, outputTokens \in 1..MaxTokens :
       req' = [req EXCEPT ![r] =
                 With(@, [pc |-> "textFinish", chunks |-> Append(@.chunks, Chunk("finish", NoData)),
                          rawUsage |-> RawUsage(inputTokens, outputTokens)])]
  /\ UNCHANGED <<store, deletions>>

(* the completion fails: the error part is forwarded (onError, lines       *)
(* 314-316) and streamText's onFinish is not called                        *)
POST_CompletionFails(r) ==
  /\ req[r].pc = "drain"
  /\ req' = [req EXCEPT ![r] =
               With(@, [pc |-> "streamFinish", failure |-> "completion",
                        chunks |-> Append(@.chunks, Chunk("error", [errorText |-> "Oops, an error occurred!"]))])]
  /\ UNCHANGED <<store, deletions>>

(* ------------------------------- streamText.onFinish, lines 239 to 270 *)
(* getTokenlensCatalog, lines 48-62: a failed fetch gives undefined *)
getTokenlensCatalog(fetchOk) == IF fetchOk THEN "catalog" ELSE "undefined"

(* getUsage of tokenlens: the summary of the cost of the usage *)
getUsage(usage) == [costUSD |-> usage.inputTokens + usage.outputTokens]

(* { ...usage, ...summary, modelId }: the later spread wins *)
MergedUsage(usage, summary, modelId) == [modelId |-> modelId] @@ summary @@ usage

(* mutant: without a catalog the callback returns before it sets the usage *)
ReconcileUsage_NoCatalogDrops(usage, providers, modelId, enrichThrows) ==
  IF modelId = NoModelId THEN usage
  ELSE IF providers = "undefined" THEN NoUsage
  ELSE IF enrichThrows THEN usage
  ELSE MergedUsage(usage, getUsage(usage), modelId)

(* finalMergedUsage as the callback leaves it *)
ReconcileUsage(usage, providers, modelId, enrichThrows) ==
  IF modelId = NoModelId THEN usage
  ELSE IF providers = "undefined" THEN usage
  ELSE IF enrichThrows THEN usage
  ELSE MergedUsage(usage, getUsage(usage), modelId)

TextOnFinish(rec, providers, modelId, enrichThrows) ==
  LET finalMergedUsage == ReconcileUsage(rec.rawUsage, providers, modelId, enrichThrows)
  IN  With(rec, [pc |-> "streamFinish", usage |-> finalMergedUsage,
                 providers |-> providers, modelId |-> modelId,
                 enrichThrows |-> enrichThrows,
                 chunks |-> Append(rec.chunks, Chunk("data-usage", finalMergedUsage))])

POST_TextOnFinish(r) ==
  /\ req[r].pc = "textFinish"
  /\ \E fetchOk \in BOOLEAN, modelId \in {NoModelId, ModelId}, enrichThrows \in BOOLEAN :
       req' = [req EXCEPT ![r] =
                 TextOnFinish(@, getTokenlensCatalog(fetchOk), modelId, enrichThrows)]
  /\ UNCHANGED <<store, deletions>>

(* ------------------- createUIMessageStream.onFinish, lines 291 to 313 *)
(* mutant: the usage is never written *)
AfterSaveMessages_Never(usage) == "finished"

(* mutant: the guard of line 303 is lost *)
AfterSaveMessages_Always(usage) == "updateContext"

(* where the callback goes after saveMessages: line 303 *)
AfterSaveMessages(usage) == IF usage # NoUsage THEN "updateContext" ELSE "finished"

POST_StreamOnFinish(r) ==
  /\ req[r].pc = "streamFinish"
  /\ ChatExists(req[r].id)
  /\ messages' = saveMessages({Message(r, "assistant")})
  /\ req' = [req EXCEPT ![r] =
               With(@, [pc |-> AfterSaveMessages(@.usage),
                        providers |-> Unread, modelId |-> Unread, enrichThrows |-> FALSE,
                        finishCount |-> @.finishCount + 1,
                        calls |-> Call(@, "saveMessages")])]
  /\ UNCHANGED <<chats, streams, deletions>>

(* saveMessages throws inside the callback: the response has been returned *)
POST_StreamOnFinishRejected(r) ==
  /\ req[r].pc = "streamFinish"
  /\ ~ChatExists(req[r].id)
  /\ req' = [req EXCEPT ![r] =
               With(@, [pc |-> "finished", finishCount |-> @.finishCount + 1,
                        providers |-> Unread, modelId |-> Unread, enrichThrows |-> FALSE,
                        calls |-> Call(@, "saveMessages")])]
  /\ UNCHANGED <<store, deletions>>

(* updateChatLastContextById: an update of the row of the chat, if any *)
updateChatLastContextById(chatId, context) ==
  IF ~ChatExists(chatId) THEN chats
  ELSE [chats EXCEPT ![chatId] = With(@, [lastContext |-> context])]

(* lines 303-312: writeOk is whether the update succeeds; a failure is     *)
(* caught at line 309 and logged                                           *)
UpdateContext(r, writeOk) ==
  /\ chats' = IF writeOk THEN updateChatLastContextById(req[r].id, req[r].usage) ELSE chats
  /\ req' = [req EXCEPT ![r] =
               With(@, [pc |-> "finished",
                        usageWrite |-> IF writeOk THEN "written" ELSE "failed",
                        calls |-> Call(@, "updateChatLastContextById")])]

POST_UpdateContext(r) ==
  /\ req[r].pc = "updateContext"
  /\ \E writeOk \in BOOLEAN : UpdateContext(r, writeOk)
  /\ UNCHANGED <<messages, streams, deletions>>

(* ------------------------------------------- DELETE, lines 342 to 365 *)
(* mutant: only a missing parameter is refused, an empty one passes *)
NoIdParam_NullOnly(id) == id = NoId

(* line 346: !id *)
NoIdParam(id) == id \in {NoId, EmptyId}

(* mutant: a missing conversation passes the check of the owner *)
DeleteNotOwner_MissingPasses(chat, user) == chat # NoChat /\ chat.userId # user

(* line 358: chat?.userId !== session.user.id *)
DeleteNotOwner(chat, user) == OwnerOf(chat) # user

(* lines 343-360: chat is read only when lines 346 and 352 let the handler *)
(* through                                                                 *)
DeleteBegin(id, user, chat) ==
  LET r0 == With(Idle, [kind |-> "DELETE", id |-> id])
      r1 == With(r0, [session |-> user])
      r2 == With(r1, [chat |-> OwnerOf(chat), calls |-> Call(r1, "getChatById")])
  IN  IF NoIdParam(id) THEN Return(r0, "bad_request:api")
      ELSE IF NoSession(user) THEN Return(r1, "unauthorized:chat")
      ELSE IF DeleteNotOwner(chat, user) THEN Return(r2, "forbidden:chat")
      ELSE With(r2, [pc |-> "deleteChat"])

DELETE_Begin(r) ==
  /\ NextFree(r)
  /\ \E id \in ChatIds \cup {NoId, EmptyId}, user \in Users \cup {NoUser} :
       req' = [req EXCEPT ![r] =
                 DeleteBegin(id, user, IF id \in ChatIds THEN getChatById(id) ELSE NoChat)]
  /\ UNCHANGED <<store, deletions>>

(* deleteChatById, line 362, and the response of line 364; deletions      *)
(* records whose conversation the request of which caller deleted         *)
DELETE_DeleteChat(r) ==
  /\ req[r].pc = "deleteChat"
  /\ chats' = deleteChatById(req[r].id).chats
  /\ messages' = deleteChatById(req[r].id).messages
  /\ streams' = deleteChatById(req[r].id).streams
  /\ deletions' = IF ~ChatExists(req[r].id) THEN deletions
                  ELSE deletions \cup {[owner |-> chats[req[r].id].userId,
                                        by |-> req[r].session]}
  /\ req' = [req EXCEPT ![r] =
               Return(With(@, [calls |-> Call(@, "deleteChatById")]), "ok:200")]

(* the request is over: its frame and the closures of its stream are gone *)
Release(r) ==
  /\ req[r].pc \in {"returned", "finished"}
  /\ req' = [req EXCEPT ![r] = With(Idle, [pc |-> "done"])]
  /\ UNCHANGED <<store, deletions>>

Next ==
  \E r \in Requests :
    \/ POST_Begin(r)
    \/ POST_SaveChat(r)
    \/ POST_SaveChatRejected(r)
    \/ POST_SaveMessages(r)
    \/ POST_SaveMessagesRejected(r)
    \/ POST_CreateStreamId(r)
    \/ POST_CreateStreamIdRejected(r)
    \/ POST_Execute(r)
    \/ POST_Drain(r)
    \/ POST_CompletionEnd(r)
    \/ POST_CompletionFails(r)
    \/ POST_TextOnFinish(r)
    \/ POST_StreamOnFinish(r)
    \/ POST_StreamOnFinishRejected(r)
    \/ POST_UpdateContext(r)
    \/ DELETE_Begin(r)
    \/ DELETE_DeleteChat(r)
    \/ Release(r)

Spec == Init /\ [][Next]_vars

(* Requests served one at a time: a request arrives only when no other is  *)
(* in flight, so no store operation is refused.                            *)
Quiet == \A q \in Requests : req[q].pc \in {"idle", "done"}

NextSeq ==
  \E r \in Requests :
    \/ Quiet /\ POST_Begin(r)
    \/ Quiet /\ DELETE_Begin(r)
    \/ POST_SaveChat(r)
    \/ POST_SaveMessages(r)
    \/ POST_CreateStreamId(r)
    \/ POST_Execute(r)
    \/ POST_Drain(r)
    \/ POST_CompletionEnd(r)
    \/ POST_CompletionFails(r)
    \/ POST_TextOnFinish(r)
    \/ POST_StreamOnFinish(r)
    \/ POST_UpdateContext(r)
    \/ DELETE_DeleteChat(r)
    \/ Release(r)

SpecSeq == Init /\ [][NextSeq]_vars

(* ================================================================ claims *)
PersistenceOps == {"saveChat", "saveMessages", "createStreamId", "updateChatLastContextById"}

Has(calls, ops) == \E i \in 1..Len(calls) : calls[i] \in ops

EndsWith(seq, tail) ==
  /\ Len(seq) >= Len(tail)
  /\ SubSeq(seq, Len(seq) - Len(tail) + 1, Len(seq)) = tail

(* the step in which request r arrives and runs to its first store write *)
Arrives(r) == req[r].pc = "idle" /\ req'[r].pc # "idle"

(* C1: a POST with a valid body and no session has returned the            *)
(* unauthorized outcome, and has called no persistence operation.          *)
C1_UnauthorizedBeforePersistence ==
  \A r \in Requests :
    (req[r].kind = "POST" /\ req[r].bodyOk /\ req[r].session = NoUser)
      => /\ req[r].pc = "returned"
         /\ req[r].outcome = "unauthorized:chat"
         /\ ~Has(req[r].calls, PersistenceOps)

C1_Witness ==
  \E r \in Requests :
    /\ req[r].kind = "POST" /\ req[r].bodyOk /\ req[r].session = NoUser
    /\ req[r].outcome = "unauthorized:chat"

(* C2, as claimed: a DELETE or a POST of an authenticated caller on a      *)
(* conversation the caller does not own (for DELETE also one that does not *)
(* exist) returns forbidden and leaves the store as it was.                *)
C2_Original ==
  [][\A r \in Requests :
       (/\ Arrives(r)
        /\ req'[r].session \in Users
        /\ \/ /\ req'[r].kind = "POST"
              /\ chats[req'[r].id] # NoChat
              /\ chats[req'[r].id].userId # req'[r].session
           \/ /\ req'[r].kind = "DELETE"
              /\ req'[r].id \in ChatIds
              /\ OwnerOf(chats[req'[r].id]) # req'[r].session)
         => /\ req'[r].outcome = "forbidden:chat"
            /\ UNCHANGED store]_vars

(* C2, amended: the same, for a POST only when the caller's message count  *)
(* does not exceed the daily quota.                                        *)
C2_ForbiddenWithoutMutation ==
  [][\A r \in Requests :
       (/\ Arrives(r)
        /\ req'[r].session \in Users
        /\ \/ /\ req'[r].kind = "POST"
              /\ req'[r].messageCount <= maxMessagesPerDay(UserTypeOf(req'[r].session))
              /\ chats[req'[r].id] # NoChat
              /\ chats[req'[r].id].userId # req'[r].session
           \/ /\ req'[r].kind = "DELETE"
              /\ req'[r].id \in ChatIds
              /\ OwnerOf(chats[req'[r].id]) # req'[r].session)
         => /\ req'[r].outcome = "forbidden:chat"
            /\ req'[r].pc = "returned"
            /\ UNCHANGED store]_vars

C2_Witness ==
  \E r \in Requests :
    /\ req[r].kind = "POST" /\ req[r].session \in Users
    /\ req[r].chat \in Users \ {req[r].session}
    /\ chats[req[r].id] # NoChat /\ chats[req[r].id].userId = req[r].chat
    /\ req[r].outcome = "forbidden:chat"

(* C3, as claimed: a POST of an authenticated caller whose message count   *)
(* is at or above the daily quota of the caller's type is rate limited.    *)
C3_RateLimitedAtQuota ==
  \A r \in Requests :
    (/\ req[r].kind = "POST"
     /\ req[r].session \in Users
     /\ req[r].messageCount >= maxMessagesPerDay(UserTypeOf(req[r].session)))
      => req[r].outcome = "rate_limit:chat"

(* C4: a POST of an authenticated caller within the quota on an identifier *)
(* with no conversation has, once the handler has returned, created the    *)
(* conversation for the caller with the generated title, written exactly   *)
(* one user message into it before any part of the stream, and returned    *)
(* the stream.                                                             *)
C4_NewConversation ==
  \A r \in Requests :
    (/\ req[r].kind = "POST"
     /\ req[r].session \in Users
     /\ req[r].chat = NoOwner
     /\ req[r].pc \notin {"saveChat", "saveMessages", "createStreamId"})
      => /\ req[r].outcome = "stream"
         /\ chats[req[r].id] # NoChat
         /\ chats[req[r].id].userId = req[r].session
         /\ chats[req[r].id].title = "generated"
         /\ {m \in messages : m.chatId = req[r].id /\ m.role = "user"} = {Message(r, "user")}
         /\ SubSeq(req[r].calls, 1, 5) =
              <<"getMessageCountByUserId", "getChatById", "saveChat", "saveMessages",
                "createStreamId">>

C4_Witness ==
  \E r \in Requests :
    /\ req[r].kind = "POST" /\ req[r].chat = NoOwner
    /\ req[r].pc = "execute" /\ req[r].chunks = <<>>
    /\ req[r].outcome = "stream"
    /\ Message(r, "user") \in messages

(* C5: a DELETE without an id, or with an empty one, has returned the      *)
(* bad-request error and has called no operation of the database.          *)
C5_DeleteWithoutId ==
  \A r \in Requests :
    (req[r].kind = "DELETE" /\ req[r].id \in {NoId, EmptyId})
      => /\ req[r].pc = "returned"
         /\ req[r].outcome = "bad_request:api"
         /\ req[r].calls = <<>>

C5_Witness ==
  \E r \in Requests :
    /\ req[r].kind = "DELETE" /\ req[r].id = EmptyId
    /\ req[r].outcome = "bad_request:api"

(* C6: when the embedding or the search fails, the stream carries the      *)
(* error text as one text-delta and then a finish part, and the response   *)
(* of the request is the stream.                                           *)
C6_FailureInsideStream ==
  \A r \in Requests :
    (req[r].kind = "POST" /\ req[r].failure \in {"embedding", "search"})
      => /\ req[r].chunks = <<Chunk("text-delta", ErrorText), Chunk("finish", NoData)>>
         /\ req[r].outcome = "stream"
         /\ req[r].pc \in {"streamFinish", "finished"}

C6_Witness ==
  \E r \in Requests :
    /\ req[r].kind = "POST" /\ req[r].failure = "embedding"
    /\ req[r].pc = "streamFinish"
    /\ Len(req[r].chunks) = 2

C8_Isolation ==
  /\ \A d \in deletions : d.owner = d.by
  /\ \A m \in messages :
       /\ m.chatId \in ChatIds
       /\ chats[m.chatId] # NoChat
       /\ chats[m.chatId].userId = m.by

(* a step leaves the owner of a conversation it keeps *)
C8_OwnerImmutable ==
  \A c \in ChatIds :
    (chats[c] # NoChat /\ chats'[c] # NoChat) => chats'[c].userId = chats[c].userId

(* C8, as claimed, under every interleaving of POST and DELETE requests:   *)
(* the owner of a conversation never changes, only a request of the owner  *)
(* deletes a conversation, and every message lies in exactly one           *)
(* conversation, owned by the caller whose request wrote it.               *)
C8_Claim == [][C8_OwnerImmutable]_vars /\ []C8_Isolation

(* C9: the finish callback of the stream runs once, and after a completed  *)
(* completion only when its finish part and the data-usage part are in the *)
(* stream; it writes the assistant message, then the usage, and a failed   *)
(* write of the usage leaves the request a stream.                         *)
C9_FinishCallback ==
  \A r \in Requests :
    req[r].kind = "POST"
      => /\ req[r].finishCount <= 1
         /\ req[r].finishCount = 1 <=> req[r].pc \in {"updateContext", "finished"}
         /\ (req[r].failure = "none" /\ req[r].pc \in {"updateContext", "finished"})
              => LET n == Len(req[r].chunks)
                 IN  /\ n >= 2
                     /\ req[r].chunks[n - 1].type = "finish"
                     /\ req[r].chunks[n].type = "data-usage"
                     /\ req[r].usage # NoUsage
                     /\ Message(r, "assistant") \in messages
                     /\ req[r].outcome = "stream"
                     /\ req[r].pc = "updateContext"
                          => /\ EndsWith(req[r].calls, <<"saveMessages">>)
                             /\ req[r].usageWrite = "none"
                     /\ req[r].pc = "finished"
                          => /\ EndsWith(req[r].calls,
                                         <<"saveMessages", "updateChatLastContextById">>)
                             /\ req[r].usageWrite \in {"written", "failed"}
                             /\ req[r].usageWrite = "written"
                                  => chats[req[r].id].lastContext = req[r].usage

C9_Witness ==
  \E r \in Requests :
    /\ req[r].kind = "POST" /\ req[r].failure = "none"
    /\ req[r].pc = "finished" /\ req[r].finishCount = 1
    /\ req[r].usageWrite = "failed"
    /\ req[r].outcome = "stream"

(* C10: when the embedding or the search fails, the conversation, the user *)
(* message and the stream id written by the request stay in the store, and *)
(* updateChatLastContextById is never called, no usage having been set.    *)
C10_NoRollback ==
  \A r \in Requests :
    (req[r].kind = "POST" /\ req[r].failure \in {"embedding", "search"})
      => /\ chats[req[r].id] # NoChat
         /\ chats[req[r].id].userId = req[r].session
         /\ req[r].chat = NoOwner => chats[req[r].id].title = "generated"
         /\ Message(r, "user") \in messages
         /\ [streamId |-> r, chatId |-> req[r].id] \in streams
         /\ req[r].usage = NoUsage
         /\ req[r].usageWrite = "none"
         /\ ~Has(req[r].calls, {"updateChatLastContextById"})

C10_Witness ==
  \E r \in Requests :
    /\ req[r].kind = "POST" /\ req[r].failure = "search"
    /\ req[r].chat = NoOwner
    /\ req[r].pc = "finished" /\ req[r].finishCount = 1
====
